---- MODULE Spec2Model ----
(***************************************************************************)
(* Model of the hourly statistics engine of stats/stats_unit.go:           *)
(* the statsCtx object (limit, db, unit, unitLock), the bolt file behind   *)
(* it, the periodicFlush goroutine, and the callers of Update, GetData,    *)
(* Configurate, Clear and Close.                                           *)
(*                                                                         *)
(* Conventions.                                                            *)
(*  - A Go slice indexed from 0 is a sequence indexed from 1: the Go       *)
(*    element x[i] is At(x, i).                                            *)
(*  - A Go map is a function whose DOMAIN is the set of keys present.      *)
(*  - *unit pointers are references into heap; the nil pointer is NULL.    *)
(*  - A runtime panic or log.Fatalf ends the process: it is recorded in    *)
(*    the variable panic and stops every goroutine.                        *)
(*  - avg_processing_time is kept in integer microseconds (the code then   *)
(*    scales it to seconds as a float).                                    *)
(*                                                                         *)
(* Specifications.                                                         *)
(*  - Spec: a new engine and every operation on it.                        *)
(*  - SpecLoaded, SpecSeries: Update and GetData on an engine constructed  *)
(*    on a filled file, at every hour of a day.                            *)
(*  - SpecRotate: periodicFlush, fairly scheduled, on an engine            *)
(*    constructed on a file an earlier run left.                           *)
(*  - SpecReconf: GetData with Configurate called by another goroutine.    *)
(*  - SpecIngest: Update with every shape of event, while the unit is      *)
(*    rotated.                                                             *)
(*  - SpecCodec: the bucket codec alone.                                   *)
(***************************************************************************)
EXTENDS Integers, Sequences, FiniteSets, TLC

\* ------------------------------------------------------------------------
\* Program constants

maxDomains == 100
maxClients == 100
HoursPerDay == 24

\* Result kinds, in the order of the Result enumeration
RNotFiltered == 1
RFiltered == 2
RSafeBrowsing == 3
RSafeSearch == 4
RParental == 5
rLast == 6

\* TimeUnit selectors of GetData
Hours == "hours"
Days == "days"

\* ------------------------------------------------------------------------
\* Bounds of the model

\* how many calls the environment may make in all: Update, GetData,
\* Configurate, Clear and Close calls, and advances of the clock by an hour
MaxCalls == 4

\* the largest count of a name in a small tally given to the codec
MaxCount == 2

\* up to MaxTies names of a large tally given to the codec have the same count
MaxTies == 2

\* the tallies given to the codec have up to maxDomains + MaxExtra names
MaxExtra == 2

\* s.unitID() of the initial state: the last hour of a day
StartID == 3 * HoursPerDay - 1

\* the nil *unit pointer; references into heap are 1, 2, ...
NULL == 0

\* ------------------------------------------------------------------------
\* Inputs

\* client addresses: the length of the net.IP value and its String() form
ip4 == [len |-> 4, text |-> "1.1.1.1"]
ip6 == [len |-> 16, text |-> "::1"]
ipBad == [len |-> 0, text |-> "<nil>"]

Entry(r, d, c, t) == [Result |-> r, Domain |-> d, Client |-> c, Time |-> t]

\* the events the ingest thread may submit: valid ones of different kinds,
\* domains, clients and durations, and one invalid event per rejected shape
Entries ==
    { Entry(RNotFiltered, "a", ip4, 1),
      Entry(RFiltered, "b", ip6, 0),
      Entry(RParental, "a", ip4, 2),
      Entry(0, "a", ip4, 1),
      Entry(RFiltered, "", ip4, 1),
      Entry(RSafeBrowsing, "b", ipBad, 1) }

\* every shape of event: Result unset or one of the five result kinds, with
\* or without a domain name, each length of client address
IngestEntries ==
    { Entry(r, d, c, 1) : r \in 0..(rLast - 1), d \in {"a", ""},
                          c \in {ip4, ip6, ipBad} }

\* retention values, in days, given to createObject and Configurate
ConfigDays == {-1, 0, 2}

TimeUnits == {Hours, Days}

\* ------------------------------------------------------------------------
\* Helpers for Go slices and maps

At(s, i) == s[i + 1]

Min(a, b) == IF a < b THEN a ELSE b

EmptyMap == [k \in {} |-> 0]

\* m[k]++ on a map[string]int
MapInc(m, k) ==
    [x \in DOMAIN m \cup {k} |->
        IF x \in DOMAIN m THEN (IF x = k THEN m[x] + 1 ELSE m[x]) ELSE 1]

\* the index expression x[i] is within the bounds of the slice
indexInRange(s, i) == 0 <= i /\ i < Len(s)

\* what a statement that indexes a slice out of range yields: the runtime
\* panics and the statement has no value
IndexPanic == [panic |-> "index out of range"]

\* x[i]++ on a slice
SliceInc(s, i) ==
    IF indexInRange(s, i) THEN [s EXCEPT ![i + 1] = @ + 1] ELSE IndexPanic

RECURSIVE SumSeq(_)
SumSeq(s) == IF s = <<>> THEN 0 ELSE Head(s) + SumSeq(Tail(s))

\* ------------------------------------------------------------------------
\* Bucket codec

initUnit(id) ==
    [id |-> id,
     nTotal |-> 0,
     nResult |-> [i \in 1..rLast |-> 0],
     timeSum |-> 0,
     domains |-> EmptyMap,
     blockedDomains |-> EmptyMap,
     clients |-> EmptyMap]

countPair(k, v) == [Name |-> k, Count |-> v]

\* k elements of the set S in some order (taken by halves to bound the
\* depth of the evaluation)
RECURSIVE takeSeq(_, _)
takeSeq(S, k) ==
    IF k = 0 THEN <<>>
    ELSE IF k = 1 THEN <<CHOOSE y \in S : TRUE>>
    ELSE LET a == takeSeq(S, k \div 2)
         IN a \o takeSeq(S \ {a[i] : i \in DOMAIN a}, k - k \div 2)

\* the elements of a set in some order
SetToSeq(S) == takeSeq(S, Cardinality(S))

\* the less function with the comparison turned round
lessAscending(a, i, j) == a[i].Count <= a[j].Count

\* "less := func(i, j int) bool { if a[i].Count >= a[j].Count { return true
\* }; return false }", on positions of a
less(a, i, j) == a[i].Count >= a[j].Count

\* how many elements of a stand before the element at position i once a is
\* sorted by less: those that less puts before it and it not before them
ahead(a, i) == Cardinality({j \in DOMAIN a : less(a, j, i) /\ ~less(a, i, j)})

\* every order of the elements of a set
RECURSIVE permsOf(_)
permsOf(S) ==
    IF S = {} THEN {<<>>}
    ELSE UNION {{<<x>> \o p : p \in permsOf(S \ {x})} : x \in S}

\* the orders in which the positions that have lo..hi elements ahead can
\* follow each other: by the number ahead, positions of the same number in
\* every order (the numbers are split in halves to bound the depth of the
\* evaluation)
RECURSIVE placed(_, _, _)
placed(rk, lo, hi) ==
    IF lo = hi THEN permsOf({i \in DOMAIN rk : rk[i] = lo})
    ELSE LET mid == (lo + hi) \div 2
         IN {x \o y : x \in placed(rk, lo, mid), y \in placed(rk, mid + 1, hi)}

\* What "for k, v := range m { a = append(a, pair) }; sort.Slice(a, less)"
\* can leave in a, given the pairs in one order. range gives the keys in any
\* order and sort.Slice moves elements by the outcomes of less alone, so an
\* element less puts strictly before another ends before it, and elements
\* less puts before each other (equal counts) end in any order: which one
\* depends on the order of range and on the algorithm of the library.
sortedOrders(a) ==
    IF Len(a) = 0 THEN {<<>>}
    ELSE LET rk == [i \in 1..Len(a) |-> ahead(a, i)] \o <<>>
         IN {[i \in 1..Len(a) |-> a[p[i]]] : p \in placed(rk, 0, Len(a) - 1)}

\* The arrays convertMapToArray can return: the pairs of m sorted, cut to
\* max entries.
convertMapToArray(m, max) ==
    LET o == SetToSeq(DOMAIN m)
        a == [i \in 1..Len(o) |-> countPair(o[i], m[o[i]])] \o <<>>
    IN {SubSeq(b, 1, IF max > Len(b) THEN Len(b) ELSE max) : b \in sortedOrders(a)}

convertArrayToMap(a) ==
    [k \in {a[i].Name : i \in DOMAIN a} |->
        LET last == CHOOSE i \in DOMAIN a :
                        a[i].Name = k /\ \A j \in DOMAIN a : j > i => a[j].Name # k
        IN a[last].Count]

\* The records serialize(u) can return (one per order of equal counts).
serialize(u) ==
    {[NTotal |-> u.nTotal,
      NResult |-> u.nResult,
      TimeAvg |-> IF u.nTotal # 0 THEN u.timeSum \div u.nTotal ELSE 0,
      Domains |-> d,
      BlockedDomains |-> b,
      Clients |-> c] :
        d \in convertMapToArray(u.domains, maxDomains),
        b \in convertMapToArray(u.blockedDomains, maxDomains),
        c \in convertMapToArray(u.clients, maxClients)}

deserialize(u, udb) ==
    [u EXCEPT !.nTotal = udb.NTotal,
              !.nResult = u.nResult \o udb.NResult,
              !.domains = convertArrayToMap(udb.Domains),
              !.blockedDomains = convertArrayToMap(udb.BlockedDomains),
              !.clients = convertArrayToMap(udb.Clients),
              !.timeSum = udb.TimeAvg * udb.NTotal]

\* ------------------------------------------------------------------------
\* Persistence layer: the committed content of the bolt file is a function
\* from unit IDs (the bucket names) to the record stored under key 0.

EmptyStore == [i \in {} |-> 0]

\* what a bucket without key 0 holds: CreateBucketIfNotExists made it and
\* nothing was put
EmptyBucket ==
    [void |-> TRUE,
     NTotal |-> 0,
     NResult |-> <<>>,
     TimeAvg |-> 0,
     Domains |-> <<>>,
     BlockedDomains |-> <<>>,
     Clients |-> <<>>]

\* tx.CreateBucketIfNotExists(unitName(id)) alone
storeCreate(s, id) ==
    [x \in DOMAIN s \cup {id} |-> IF x \in DOMAIN s THEN s[x] ELSE EmptyBucket]

storePut(s, id, udb) ==
    [x \in DOMAIN s \cup {id} |-> IF x = id THEN udb ELSE s[x]]

storeDelete(s, id) == [x \in DOMAIN s \ {id} |-> s[x]]

\* the record of bucket id as a set: empty when loadUnitFromDB returns nil
\* (no bucket, or gob Decode fails on a bucket without key 0)
loadUnitFromDB(s, id) ==
    IF id \in DOMAIN s /\ s[id] # EmptyBucket THEN {s[id]} ELSE {}

\* ------------------------------------------------------------------------
\* Aggregation (the part of GetData after the window is assembled)

\* the record GetData substitutes for a bucket that is not stored
ZeroUnitDB ==
    [NTotal |-> 0,
     NResult |-> [i \in 1..rLast |-> 0],
     TimeAvg |-> 0,
     Domains |-> <<>>,
     BlockedDomains |-> <<>>,
     Clients |-> <<>>]

\* the loop "for i := firstID; i != lastID; i++" when it terminates
loadWindow(s, firstID, lastID) ==
    [k \in 1..(lastID - firstID) |->
        LET got == loadUnitFromDB(s, firstID + k - 1)
        IN IF got = {} THEN ZeroUnitDB ELSE CHOOSE u \in got : TRUE]

\* the window after the live record is added
assembleWindow(units, cu, cuID, lastID) ==
    Append(IF cuID # lastID THEN Tail(units) ELSE units, cu)

\* the counter a series is built from: NTotal, or NResult[key]
countOf(u, key) == IF key = 0 THEN u.NTotal ELSE At(u.NResult, key)

\* dayFold that also appends the sum of the hours after the last day boundary
RECURSIVE dayFoldWithRemainder(_, _, _, _, _)
dayFoldWithRemainder(vals, i, id, sum, a) ==
    IF i > Len(vals)
    THEN (IF (id - 1) % HoursPerDay = 0 THEN a ELSE Append(a, sum))
    ELSE LET s2 == sum + vals[i]
         IN IF id % HoursPerDay = 0
            THEN dayFoldWithRemainder(vals, i + 1, id + 1, 0, Append(a, s2))
            ELSE dayFoldWithRemainder(vals, i + 1, id + 1, s2, a)

RECURSIVE dayFold(_, _, _, _, _)
dayFold(vals, i, id, sum, a) ==
    IF i > Len(vals) THEN a
    ELSE LET s2 == sum + vals[i]
         IN IF id % HoursPerDay = 0
            THEN dayFold(vals, i + 1, id + 1, 0, Append(a, s2))
            ELSE dayFold(vals, i + 1, id + 1, s2, a)

series(units, firstID, timeUnit, key) ==
    LET vals == [i \in 1..Len(units) |-> countOf(units[i], key)]
    IN IF timeUnit = Hours THEN vals ELSE dayFold(vals, 1, firstID, 0, <<>>)

\* the map m built by "m[it.Name] = int(it.Count)" over the units in order:
\* the count of a name is the one of the last unit that lists it
topMap(units, field) ==
    LET has(i, k) == \E j \in DOMAIN units[i][field] : units[i][field][j].Name = k
        names == UNION {{units[i][field][j].Name : j \in DOMAIN units[i][field]} :
                           i \in DOMAIN units}
    IN [k \in names |->
           LET i == CHOOSE i \in DOMAIN units :
                        has(i, k) /\ \A i2 \in DOMAIN units : i2 > i => ~has(i2, k)
           IN convertArrayToMap(units[i][field])[k]]

convertTopArray(a) == [i \in DOMAIN a |-> [n \in {a[i].Name} |-> a[i].Count]]

timeN(units) == Cardinality({i \in DOMAIN units : units[i].TimeAvg # 0})

sumOf(units, key) == SumSeq([i \in DOMAIN units |-> countOf(units[i], key)])

\* The maps GetData can return for a window (one per order of equal counts
\* in the top lists); timeN(units) is not 0.
getDataResults(units, firstID, timeUnit) ==
    {[dns_queries |-> series(units, firstID, timeUnit, 0),
      blocked_filtering |-> series(units, firstID, timeUnit, RFiltered),
      replaced_safebrowsing |-> series(units, firstID, timeUnit, RSafeBrowsing),
      replaced_parental |-> series(units, firstID, timeUnit, RParental),
      top_queried_domains |-> convertTopArray(a1),
      top_blocked_domains |-> convertTopArray(a2),
      top_clients |-> convertTopArray(a3),
      num_dns_queries |-> sumOf(units, 0),
      num_blocked_filtering |-> sumOf(units, RFiltered),
      num_replaced_safebrowsing |-> sumOf(units, RSafeBrowsing),
      num_replaced_safesearch |-> sumOf(units, RSafeSearch),
      num_replaced_parental |-> sumOf(units, RParental),
      avg_processing_time |->
          SumSeq([i \in DOMAIN units |-> units[i].TimeAvg]) \div timeN(units),
      time_units |-> timeUnit] :
        a1 \in convertMapToArray(topMap(units, "Domains"), maxDomains),
        a2 \in convertMapToArray(topMap(units, "BlockedDomains"), maxDomains),
        a3 \in convertMapToArray(topMap(units, "Clients"), maxClients)}

\* ------------------------------------------------------------------------
\* Ingest

\* validEntry without the test of the domain name
validEntryAnyDomain(e) ==
    ~(e.Result = 0 \/ ~(e.Client.len = 4 \/ e.Client.len = 16))

\* the test of Update's first lines, negated
validEntry(e) ==
    ~(e.Result = 0 \/ e.Domain = "" \/ ~(e.Client.len = 4 \/ e.Client.len = 16))

\* updateUnit counting every blocked event as RFiltered too
updateUnitTwoKinds(u, e) ==
    IF ~indexInRange(u.nResult, e.Result) THEN IndexPanic ELSE
    [u EXCEPT !.nResult = IF e.Result \in {RNotFiltered, RFiltered}
                          THEN SliceInc(@, e.Result)
                          ELSE SliceInc(SliceInc(@, e.Result), RFiltered),
              !.domains = IF e.Result = RNotFiltered THEN MapInc(@, e.Domain) ELSE @,
              !.blockedDomains = IF e.Result = RNotFiltered THEN @ ELSE MapInc(@, e.Domain),
              !.clients = MapInc(@, e.Client.text),
              !.timeSum = @ + e.Time,
              !.nTotal = @ + 1]

\* the updates Update makes to the unit under the lock; "u.nResult[e.Result]++"
\* comes first and panics when e.Result is not an index of u.nResult
updateUnit(u, e) ==
    IF ~indexInRange(u.nResult, e.Result) THEN IndexPanic ELSE
    [u EXCEPT !.nResult = SliceInc(@, e.Result),
              !.domains = IF e.Result = RNotFiltered THEN MapInc(@, e.Domain) ELSE @,
              !.blockedDomains = IF e.Result = RNotFiltered THEN @ ELSE MapInc(@, e.Domain),
              !.clients = MapInc(@, e.Client.text),
              !.timeSum = @ + e.Time,
              !.nTotal = @ + 1]

\* ------------------------------------------------------------------------
\* State

VARIABLES
    now,        \* the value s.unitID() returns (the hour of the clock)
    limit,      \* s.limit, in hours
    db,         \* s.db: "open", "closed" (handle closed) or "nil"
    store,      \* committed content of the file: unit ID -> unitDB
    heap,       \* the unit objects: reference -> unit
    unit,       \* s.unit: a reference, or NULL
    unitLock,   \* s.unitLock: "free", or the thread that holds it
    panic,      \* "none", or why the process died
    flPc, flId, flU, flUdb,     \* periodicFlush: position, id, u, udb
    flDb,       \* periodicFlush in beginTxn: "none", or the state ("open" or
                \* "closed") of the handle it read from s.db
    flTx,       \* periodicFlush's write transaction: the file as the
                \* transaction has it, and what ok1 and ok2 were
    ingPc, ingE, ingU,          \* Update: position, e, u
    ctlPc, q, ctlU,             \* GetData / Clear / Close: position and locals
    qres,       \* what the last GetData returned
    received,   \* history: reference -> valid events folded into that unit
    ingestDone, \* history: valid Update calls completed and not yet retired
    shut,       \* history: the unit Close retired, and whether its flush committed
    mark,       \* history: "clear" / "reopen" while nothing but GetData has
                \* changed the engine since Clear / createObject returned
    calls,      \* how many calls the environment has made
    lost,       \* history: the IDs of the units periodicFlush retired and
                \* whose transaction did not commit
    ops,        \* history: for each thread, the lock and storage calls of its
                \* current (or last) operation, in order
    codec       \* a tally given to the codec, its encoding and its decoding

vars == <<now, limit, db, store, heap, unit, unitLock, panic,
          flPc, flId, flU, flUdb, flDb, flTx, ingPc, ingE, ingU, ctlPc, q, ctlU,
          qres, received, ingestDone, shut, mark, calls, lost, ops, codec>>

ctxV == <<limit, db, store>>
memV == <<heap, unit, unitLock, received>>
flV == <<flPc, flId, flU, flUdb, flDb, flTx>>
ingV == <<ingPc, ingE, ingU>>
ctlV == <<ctlPc, q, ctlU, qres>>
histV == <<ingestDone, shut>>
boundV == <<calls>>
logV == <<lost, ops>>

\* the locals of GetData; tx is the file as its read transaction sees it
QNone == [timeUnit |-> Hours, tx |-> EmptyStore, lastID |-> 0, firstID |-> 0,
          units |-> <<>>, cu |-> ZeroUnitDB, cuID |-> 0]

\* periodicFlush has no transaction
NoTx == [s |-> EmptyStore, ok1 |-> FALSE, ok2 |-> FALSE]
NoResult == [kind |-> "none", d |-> <<>>]
NilResult == [kind |-> "nil", d |-> <<>>]
NoShut == [set |-> FALSE, u |-> initUnit(0), flushed |-> FALSE]

\* the smallest reference not in use
newRef(h) == CHOOSE r \in 1..(Cardinality(DOMAIN h) + 1) :
                 r \notin DOMAIN h /\ \A r2 \in 1..(r - 1) : r2 \in DOMAIN h

\* the objects still referenced (the others are garbage)
gc(h, refs) == [r \in DOMAIN h \cap refs |-> h[r]]

\* a lock that never makes a thread wait
canLockAlways == TRUE

\* s.unitLock.Lock() returns
canLock == unitLock = "free"

\* beginTxn returns a transaction
canBegin == db = "open"

\* ------------------------------------------------------------------------
\* The lock and storage calls each piece of code makes, in order. A Commit
\* that fails rolls the transaction back, so a transaction that did not
\* commit is logged as rolled back. Repeated calls of one kind in a loop
\* are logged once.

NoOps == [t \in {"fl", "ing", "ctl"} |-> <<>>]

\* "s.unitLock.Lock(); ...; s.unitLock.Unlock()" around memory accesses
lockOps == <<"lock", "unlock">>

\* beginTxn: no call with s.db nil, a Begin that fails on a closed handle
beginOps ==
    IF db = "nil" THEN <<>>
    ELSE IF db = "open" THEN <<"begin">> ELSE <<"begin_failed">>

\* db.Begin(true) of periodicFlush on the handle beginTxn read, whose state
\* is h
flushTxOps(h) == IF h = "open" THEN <<"begin">> ELSE <<"begin_failed">>

\* GetData reading the live unit inside its read transaction
getDataTxOpsLocked(spin) ==
    IF spin THEN <<"get">> ELSE <<"get", "lock", "unlock", "rollback">>

\* the transaction of GetData after its Begin; spin says that the loading
\* loop does not end
getDataTxOps(spin) ==
    IF spin THEN <<"get">> ELSE <<"get", "rollback">>

\* Close without the Rollback of its failure path
closeTxOpsCommitOnly(committed) ==
    beginOps \o (IF canBegin
                 THEN (IF committed THEN <<"put", "commit">> ELSE <<"put">>)
                 ELSE <<>>)

\* the transaction of Close
closeTxOps(committed) ==
    beginOps \o (IF canBegin
                 THEN <<"put", IF committed THEN "commit" ELSE "rollback">>
                 ELSE <<>>)

\* createObject: dbOpen, then the transaction; deleted says whether ForEach
\* deleted a bucket, committed whether tx.Commit succeeded
createOps(deleted, committed) ==
    <<"open", "begin", "get">>
        \o (IF deleted
            THEN <<"delete", "get", IF committed THEN "commit" ELSE "rollback">>
            ELSE <<"get", "rollback">>)

\* no tally has been given to the codec
NoCodec == [pc |-> "off", u |-> initUnit(0), udb |-> ZeroUnitDB,
            back |-> initUnit(0)]

\* ------------------------------------------------------------------------
\* createObject

\* the buckets tx.ForEach deletes: in key order, while id < firstID
oldUnits(s, id, lim) == {i \in DOMAIN s : i < id - lim - 1}

\* the file after the transaction of createObject; committed says whether
\* tx.Commit (whose result the code ignores) succeeded
createStore(s, id, lim, committed) ==
    LET del == oldUnits(s, id, lim)
    IN IF del # {} /\ committed THEN [x \in DOMAIN s \ del |-> s[x]] ELSE s

\* the unit createObject installs: loadUnitFromDB reads inside the
\* transaction, after the deletions
createUnit(s, id, lim) ==
    LET got == loadUnitFromDB(createStore(s, id, lim, TRUE), id)
    IN IF got = {} THEN initUnit(id)
       ELSE deserialize(initUnit(id), CHOOSE u \in got : TRUE)

\* The state createObject(days, ...) leaves, on the file content s.
Created(days, s) ==
    /\ limit = days * HoursPerDay
    /\ db = "open"
    /\ \E committed \in BOOLEAN :
          /\ store = createStore(s, now, days * HoursPerDay, committed)
          /\ ops = [NoOps EXCEPT !.ctl =
                       createOps(oldUnits(s, now, days * HoursPerDay) # {}, committed)]
    /\ heap = [r \in {1} |-> createUnit(s, now, days * HoursPerDay)]
    /\ unit = 1
    /\ unitLock = "free"
    /\ panic = "none"
    /\ flPc = "loop" /\ flId = 0 /\ flU = NULL /\ flUdb = ZeroUnitDB
    /\ flDb = "none" /\ flTx = NoTx
    /\ ingPc = "idle" /\ ingE = Entry(0, "", ipBad, 0) /\ ingU = NULL
    /\ ctlPc = "idle" /\ q = QNone /\ ctlU = NULL
    /\ qres = NoResult
    /\ received = [r \in {1} |-> createUnit(s, now, days * HoursPerDay).nTotal]
    /\ ingestDone = createUnit(s, now, days * HoursPerDay).nTotal
    /\ lost = {}

Init ==
    /\ now = StartID
    /\ Created(1, EmptyStore)
    /\ shut = NoShut
    /\ mark = "none"
    /\ calls = 0
    /\ codec = NoCodec

\* ------------------------------------------------------------------------
\* The clock

Tick ==
    /\ panic = "none"
    /\ calls < MaxCalls
    /\ calls' = calls + 1
    /\ now' = now + 1
    /\ mark' = "none"
    /\ UNCHANGED <<ctxV, memV, panic, flV, ingV, ctlV, histV, logV, codec>>

\* a panic (or log.Fatalf) ends the process
Panic(why) ==
    /\ panic' = why
    /\ UNCHANGED <<now, ctxV, memV, flV, ingV, ctlV, histV, mark, boundV,
                   logV, codec>>

\* ------------------------------------------------------------------------
\* Update

\* Update(e) up to "u := s.unit": an invalid e returns at once. ingE is the
\* e of the call in progress.
Update1(e) ==
    /\ panic = "none"
    /\ ingPc = "idle"
    /\ calls < MaxCalls
    /\ calls' = calls + 1
    /\ UNCHANGED <<lost, codec>>
    /\ IF ~validEntry(e)
       THEN /\ ops' = [ops EXCEPT !.ing = <<>>]
            /\ ingE' = Entry(0, "", ipBad, 0)
            /\ UNCHANGED <<now, ctxV, memV, panic, flV, ingPc, ingU, ctlV, histV,
                           mark>>
       ELSE /\ canLock
            /\ unitLock' = "ing"
            /\ ops' = [ops EXCEPT !.ing = <<"lock">>]
            /\ ingPc' = "locked"
            /\ ingE' = e
            /\ ingU' = unit
            /\ UNCHANGED <<now, ctxV, heap, unit, received, panic, flV, ctlV,
                           histV, mark>>

\* the rest of Update, to the Unlock
Update2 ==
    /\ panic = "none"
    /\ ingPc = "locked"
    /\ IF ingU = NULL
       THEN Panic("nil unit in Update")
       ELSE IF ~indexInRange(heap[ingU].nResult, ingE.Result)
       THEN Panic("index out of range")
       ELSE /\ heap' = gc(IF ingU \in DOMAIN heap
                          THEN [heap EXCEPT ![ingU] = updateUnit(@, ingE)]
                          ELSE heap,
                          {unit, flU, ctlU})
            /\ received' = gc(IF ingU \in DOMAIN received
                              THEN [received EXCEPT ![ingU] = @ + 1]
                              ELSE received,
                              {unit, flU, ctlU})
            /\ ingestDone' = ingestDone + 1
            /\ unitLock' = "free"
            /\ ops' = [ops EXCEPT !.ing = @ \o <<"unlock">>]
            /\ ingPc' = "idle"
            /\ ingE' = Entry(0, "", ipBad, 0)
            /\ ingU' = NULL
            /\ mark' = "none"
            /\ UNCHANGED <<now, ctxV, unit, panic, flV, ctlV, shut, boundV,
                           lost, codec>>

\* ------------------------------------------------------------------------
\* periodicFlush

\* the loop condition "s.unit != nil" (read without the lock)
FlushLoop ==
    /\ panic = "none"
    /\ flPc = "loop"
    /\ flPc' = IF unit = NULL THEN "exited" ELSE "poll"
    /\ ops' = [ops EXCEPT !.fl = <<>>]
    /\ UNCHANGED <<now, ctxV, memV, panic, flId, flU, flUdb, flDb, flTx, ingV,
                   ctlV, histV, mark, boundV, lost, codec>>

\* "id := s.unitID()"
FlushPoll ==
    /\ panic = "none"
    /\ flPc = "poll"
    /\ flId' = now
    /\ flPc' = "cmp"
    /\ UNCHANGED <<now, ctxV, memV, panic, flU, flUdb, flDb, flTx, ingV, ctlV,
                   histV, mark, boundV, logV, codec>>

\* "if s.unit.id == id { time.Sleep(time.Second); continue }": s.unit is
\* read without the lock
FlushCompare ==
    /\ panic = "none"
    /\ flPc = "cmp"
    /\ IF unit = NULL
       THEN Panic("nil unit in periodicFlush")
       ELSE /\ IF heap[unit].id = flId
               THEN flPc' = "loop" /\ flId' = 0
               ELSE flPc' = "swap" /\ flId' = flId
            /\ UNCHANGED <<now, ctxV, memV, panic, flU, flUdb, flDb, flTx, ingV,
                           ctlV, histV, mark, boundV, logV, codec>>

\* "nu := unit{}; s.initUnit(&nu, id); u := s.swapUnit(&nu)"
FlushSwap ==
    /\ panic = "none"
    /\ flPc = "swap"
    /\ canLock
    /\ LET nu == newRef(heap)
       IN /\ heap' = [r \in DOMAIN heap \cup {nu} |->
                         IF r = nu THEN initUnit(flId) ELSE heap[r]]
          /\ received' = [r \in DOMAIN received \cup {nu} |->
                             IF r = nu THEN 0 ELSE received[r]]
          /\ flU' = unit
          /\ unit' = nu
    /\ flPc' = "ser"
    /\ ops' = [ops EXCEPT !.fl = @ \o lockOps]
    /\ mark' = "none"
    /\ UNCHANGED <<now, ctxV, unitLock, panic, flId, flUdb, flDb, flTx, ingV,
                   ctlV, histV, boundV, lost, codec>>

\* "udb := serialize(u)"
FlushSerialize ==
    /\ panic = "none"
    /\ flPc = "ser"
    /\ IF flU = NULL
       THEN Panic("nil unit in serialize")
       ELSE /\ \E udb \in serialize(heap[flU]) : flUdb' = udb
            /\ flPc' = "begin"
            /\ UNCHANGED <<now, ctxV, memV, panic, flId, flU, flDb, flTx, ingV,
                           ctlV, histV, mark, boundV, logV, codec>>

\* flushed with the record written under the new unit's ID
flushedUnderNewID(s, id, udb, old) == storeDelete(storePut(s, old + limit, udb), old)

\* the file after flushUnitToDB(tx, id, udb) and deleteUnit(tx, old), committed
flushed(s, id, udb, old) == storeDelete(storePut(s, id, udb), old)

\* the end of an iteration of periodicFlush's loop: u and udb are dropped
flushContinue ==
    /\ heap' = gc(heap, {unit, ingU, ctlU})
    /\ received' = gc(received, {unit, ingU, ctlU})
    /\ ingestDone' = ingestDone - received[flU]
    /\ flPc' = "loop" /\ flId' = 0 /\ flU' = NULL /\ flUdb' = ZeroUnitDB
    /\ flDb' = "none" /\ flTx' = NoTx
    /\ mark' = "none"
    /\ UNCHANGED <<now, limit, db, unit, unitLock, panic, ingV, ctlV, shut,
                   boundV, codec>>

\* beginTxn up to "if db == nil { return nil }": s.db is read without a
\* lock; with nil, "if tx == nil { continue }"
FlushBegin ==
    /\ panic = "none"
    /\ flPc = "begin"
    /\ IF db = "nil"
       THEN /\ lost' = lost \cup {heap[flU].id}
            /\ UNCHANGED <<store, ops>>
            /\ flushContinue
       ELSE /\ flDb' = db
            /\ flPc' = "tx"
            /\ UNCHANGED <<now, ctxV, memV, panic, flId, flU, flUdb, flTx, ingV,
                           ctlV, histV, mark, boundV, logV, codec>>

\* Clear is between its db.Begin(true) and its tx.Rollback(): it holds
\* bolt's writer lock
clearHoldsWriter == ctlPc \in {"c_nil", "c_rollback"}

\* db.Begin(true) on the handle beginTxn read: it waits while Clear holds
\* the writer lock of that handle and fails on a closed handle ("if tx ==
\* nil { continue }"); the transaction starts from the file as committed
FlushTx ==
    /\ panic = "none"
    /\ flPc = "tx"
    /\ flDb = "open" => ~clearHoldsWriter
    /\ ops' = [ops EXCEPT !.fl = @ \o flushTxOps(flDb)]
    /\ IF flDb # "open"
       THEN /\ lost' = lost \cup {heap[flU].id}
            /\ UNCHANGED store
            /\ flushContinue
       ELSE /\ flTx' = [NoTx EXCEPT !.s = store]
            /\ flPc' = "put"
            /\ UNCHANGED <<now, ctxV, memV, panic, flId, flU, flUdb, flDb, ingV,
                           ctlV, histV, mark, boundV, lost, codec>>

\* "ok1 := s.flushUnitToDB(tx, u.id, udb); ok2 := s.deleteUnit(tx,
\* id-s.limit)" inside the transaction. flushUnitToDB writes the record, or
\* fails after CreateBucketIfNotExists (gob Encode or Put fails), or fails
\* in CreateBucketIfNotExists; deleteUnit fails when there is no bucket
\* id - s.limit (s.limit is read here, without a lock).
FlushWrite ==
    /\ panic = "none"
    /\ flPc = "put"
    /\ \E w \in {"record", "bucket", "nothing"} :
          LET id == heap[flU].id
              old == flId - limit
              put == IF w = "record" THEN storePut(flTx.s, id, flUdb)
                     ELSE IF w = "bucket" THEN storeCreate(flTx.s, id)
                     ELSE flTx.s
          IN flTx' = [s |-> IF w = "record" THEN flushed(flTx.s, id, flUdb, old)
                           ELSE storeDelete(put, old),
                      ok1 |-> (w = "record"), ok2 |-> (old \in DOMAIN put)]
    /\ flPc' = "commit"
    /\ ops' = [ops EXCEPT !.fl = @ \o <<"put", "delete">>]
    /\ UNCHANGED <<now, ctxV, memV, panic, flId, flU, flUdb, flDb, ingV, ctlV,
                   histV, mark, boundV, lost, codec>>

\* "if ok1 || ok2 { tx.Commit() } else { tx.Rollback() }" and the end of the
\* iteration; committed says whether tx.Commit succeeded
FlushCommit ==
    /\ panic = "none"
    /\ flPc = "commit"
    /\ \E committed \in BOOLEAN :
          LET done == (flTx.ok1 \/ flTx.ok2) /\ committed
          IN /\ store' = IF done THEN flTx.s ELSE store
             /\ lost' = IF done /\ flTx.ok1 THEN lost
                        ELSE lost \cup {heap[flU].id}
             /\ ops' = [ops EXCEPT !.fl = @ \o <<IF done THEN "commit"
                                                  ELSE "rollback">>]
    /\ flushContinue

\* a write transaction is open: db.Begin(true) and db.Close() of another
\* goroutine wait for its end
writerBusy == flPc \in {"put", "commit"}

\* ------------------------------------------------------------------------
\* GetData

\* "tx := s.beginTxn(false); if tx == nil { return nil }": the read
\* transaction sees the file as committed at its Begin
GetData1(timeUnit) ==
    /\ panic = "none"
    /\ ctlPc = "idle"
    /\ calls < MaxCalls
    /\ calls' = calls + 1
    /\ IF ~canBegin
       THEN /\ qres' = NilResult
            /\ ctlPc' = "g_done"
            /\ q' = q
       ELSE /\ qres' = qres
            /\ ctlPc' = "g_clock"
            /\ q' = [QNone EXCEPT !.timeUnit = timeUnit, !.tx = store]
    /\ ops' = [ops EXCEPT !.ctl = beginOps]
    /\ UNCHANGED <<now, ctxV, memV, panic, flV, ingV, ctlU, histV, mark, lost,
                   codec>>

\* "lastID := s.unitID()"
GetDataClock ==
    /\ panic = "none"
    /\ ctlPc = "g_clock"
    /\ q' = [q EXCEPT !.lastID = now]
    /\ ctlPc' = "g_load"
    /\ UNCHANGED <<now, ctxV, memV, panic, flV, ingV, ctlU, qres, histV, mark,
                   boundV, logV, codec>>

\* "firstID := lastID - s.limit + 1", the loading loop and tx.Rollback; the
\* loop does not end when firstID is past lastID
GetDataLoad ==
    /\ panic = "none"
    /\ ctlPc = "g_load"
    /\ IF q.lastID - limit + 1 > q.lastID
       THEN ctlPc' = "g_spin" /\ q' = q
       ELSE /\ ctlPc' = "g_snap"
            /\ q' = [q EXCEPT !.tx = EmptyStore,
                              !.firstID = q.lastID - limit + 1,
                              !.units = loadWindow(q.tx, q.lastID - limit + 1,
                                                   q.lastID)]
    /\ ops' = [ops EXCEPT !.ctl = @ \o getDataTxOps(q.lastID - limit + 1 > q.lastID)]
    /\ UNCHANGED <<now, ctxV, memV, panic, flV, ingV, ctlU, qres, histV, mark,
                   boundV, lost, codec>>

\* "cu := serialize(s.unit); cuID := s.unit.id" under the lock
GetData2 ==
    /\ panic = "none"
    /\ ctlPc = "g_snap"
    /\ canLock
    /\ IF unit = NULL
       THEN Panic("nil unit in GetData")
       ELSE /\ \E cu \in serialize(heap[unit]) :
                   q' = [q EXCEPT !.cu = cu, !.cuID = heap[unit].id]
            /\ ctlPc' = "g_calc"
            /\ ops' = [ops EXCEPT !.ctl = @ \o lockOps]
            /\ UNCHANGED <<now, ctxV, memV, panic, flV, ingV, ctlU, qres,
                           histV, mark, boundV, lost, codec>>

\* from "if cuID != lastID" to the return
GetData3 ==
    /\ panic = "none"
    /\ ctlPc = "g_calc"
    /\ IF q.cuID # q.lastID /\ q.units = <<>>
       THEN Panic("slice bounds out of range")
       ELSE LET units == assembleWindow(q.units, q.cu, q.cuID, q.lastID)
            IN IF Len(units) # limit
               THEN Panic("len(units) != s.limit")
               ELSE IF timeN(units) = 0
               THEN Panic("integer divide by zero")
               ELSE /\ \E d \in getDataResults(units, q.firstID, q.timeUnit) :
                           qres' = [kind |-> "data", d |-> d]
                    /\ q' = [q EXCEPT !.units = units]
                    /\ ctlPc' = "g_done"
                    /\ UNCHANGED <<now, ctxV, memV, panic, flV, ingV, ctlU,
                                   histV, mark, boundV, logV, codec>>

\* the caller takes the result
GetDataReturn ==
    /\ panic = "none"
    /\ ctlPc = "g_done"
    /\ ctlPc' = "idle"
    /\ q' = QNone
    /\ qres' = NoResult
    /\ mark' = "none"
    /\ UNCHANGED <<now, ctxV, memV, panic, flV, ingV, ctlU, histV, boundV,
                   logV, codec>>

\* ------------------------------------------------------------------------
\* Configurate

\* Configurate that also evicts the buckets outside the new retention
ConfigurateEvicting(days) ==
    /\ panic = "none"
    /\ ctlPc = "idle"
    /\ calls < MaxCalls
    /\ calls' = calls + 1
    /\ limit' = IF days < 0 THEN limit ELSE days * HoursPerDay
    /\ store' = IF days < 0 THEN store
                ELSE [i \in {j \in DOMAIN store : j >= now - days * HoursPerDay} |->
                         store[i]]
    /\ ops' = [ops EXCEPT !.ctl = <<>>]
    /\ mark' = "none"
    /\ UNCHANGED <<now, db, memV, panic, flV, ingV, ctlV, histV, lost, codec>>

Configurate(days) ==
    /\ panic = "none"
    /\ ctlPc = "idle"
    /\ calls < MaxCalls
    /\ calls' = calls + 1
    /\ limit' = IF days < 0 THEN limit ELSE days * HoursPerDay
    /\ ops' = [ops EXCEPT !.ctl = <<>>]
    /\ mark' = "none"
    /\ UNCHANGED <<now, db, store, memV, panic, flV, ingV, ctlV, histV, lost,
                   codec>>

\* Configurate called by another goroutine than the one that calls GetData,
\* Clear and Close: it may run while one of those calls is in progress.
\* s.limit is written with no lock; a reader sees the old or the new value.
ConfigurateConcurrent(days) ==
    /\ panic = "none"
    /\ calls < MaxCalls
    /\ calls' = calls + 1
    /\ limit' = IF days < 0 THEN limit ELSE days * HoursPerDay
    /\ mark' = "none"
    /\ UNCHANGED <<now, db, store, memV, panic, flV, ingV, ctlV, histV, logV,
                   codec>>

\* ------------------------------------------------------------------------
\* Clear

\* "tx := s.beginTxn(true); if tx != nil {": db.Begin(true) waits for the
\* end of periodicFlush's write transaction
Clear1 ==
    /\ panic = "none"
    /\ ctlPc = "idle"
    /\ canBegin => ~writerBusy
    /\ calls < MaxCalls
    /\ calls' = calls + 1
    /\ ctlPc' = IF canBegin THEN "c_nil" ELSE "c_swap"
    /\ ops' = [ops EXCEPT !.ctl = beginOps]
    /\ mark' = "none"
    /\ UNCHANGED <<now, ctxV, memV, panic, flV, ingV, q, ctlU, qres, histV,
                   lost, codec>>

\* "db := s.db; s.db = nil": the handle stays open, and a periodicFlush that
\* has read s.db before keeps it
ClearDetach ==
    /\ panic = "none"
    /\ ctlPc = "c_nil"
    /\ db' = "nil"
    /\ ctlPc' = "c_rollback"
    /\ UNCHANGED <<now, limit, store, memV, panic, flV, ingV, q, ctlU, qres,
                   histV, mark, boundV, logV, codec>>

\* "tx.Rollback()": the writer lock is free again
ClearRollback ==
    /\ panic = "none"
    /\ ctlPc = "c_rollback"
    /\ ctlPc' = "c_close"
    /\ ops' = [ops EXCEPT !.ctl = @ \o <<"rollback">>]
    /\ UNCHANGED <<now, ctxV, memV, panic, flV, ingV, q, ctlU, qres, histV,
                   mark, boundV, lost, codec>>

\* "db.Close()" on the handle Clear kept: it waits for the end of a write
\* transaction periodicFlush has begun on that handle since the Rollback
ClearClose ==
    /\ panic = "none"
    /\ ctlPc = "c_close"
    /\ ~writerBusy
    /\ flDb' = IF flDb = "open" THEN "closed" ELSE flDb
    /\ ctlPc' = "c_open"
    /\ ops' = [ops EXCEPT !.ctl = @ \o <<"close">>]
    /\ UNCHANGED <<now, ctxV, memV, panic, flPc, flId, flU, flUdb, flTx, ingV,
                   q, ctlU, qres, histV, mark, boundV, lost, codec>>

\* "s.dbOpen()": bolt.Open of s.filename; opened says whether it succeeded
Clear2 ==
    /\ panic = "none"
    /\ ctlPc = "c_open"
    /\ \E opened \in BOOLEAN : db' = IF opened THEN "open" ELSE "nil"
    /\ ctlPc' = "c_swap"
    /\ ops' = [ops EXCEPT !.ctl = @ \o <<"open">>]
    /\ UNCHANGED <<now, limit, store, memV, panic, flV, ingV, q, ctlU, qres,
                   histV, mark, boundV, lost, codec>>

\* "u := unit{}; s.initUnit(&u, s.unitID())"
Clear3 ==
    /\ panic = "none"
    /\ ctlPc = "c_swap"
    /\ LET nu == newRef(heap)
       IN /\ heap' = [r \in DOMAIN heap \cup {nu} |->
                         IF r = nu THEN initUnit(now) ELSE heap[r]]
          /\ received' = [r \in DOMAIN received \cup {nu} |->
                             IF r = nu THEN 0 ELSE received[r]]
          /\ ctlU' = nu
    /\ ctlPc' = "c_lock"
    /\ UNCHANGED <<now, ctxV, unit, unitLock, panic, flV, ingV, q, qres, histV,
                   mark, boundV, logV, codec>>

\* "s.swapUnit(&u)"
Clear4 ==
    /\ panic = "none"
    /\ ctlPc = "c_lock"
    /\ canLock
    /\ unit' = ctlU
    /\ ctlU' = NULL
    /\ heap' = gc(heap, {ctlU, flU, ingU})
    /\ received' = gc(received, {ctlU, flU, ingU})
    /\ ingestDone' = IF unit = NULL THEN ingestDone ELSE ingestDone - received[unit]
    /\ ctlPc' = "idle"
    /\ ops' = [ops EXCEPT !.ctl = @ \o lockOps]
    /\ mark' = "clear"
    /\ UNCHANGED <<now, ctxV, unitLock, panic, flV, ingV, q, qres, shut,
                   boundV, lost, codec>>

\* ------------------------------------------------------------------------
\* Close

\* "u := s.swapUnit(nil)"
Close1 ==
    /\ panic = "none"
    /\ ctlPc = "idle"
    /\ calls < MaxCalls
    /\ calls' = calls + 1
    /\ canLock
    /\ ctlU' = unit
    /\ unit' = NULL
    /\ shut' = IF unit = NULL THEN NoShut
               ELSE [set |-> TRUE, u |-> heap[unit], flushed |-> FALSE]
    /\ ctlPc' = "x_flush"
    /\ ops' = [ops EXCEPT !.ctl = lockOps]
    /\ mark' = "none"
    /\ UNCHANGED <<now, ctxV, heap, unitLock, received, panic, flV, ingV, q,
                   qres, ingestDone, lost, codec>>

\* "udb := serialize(u)" and the write transaction, in which periodicFlush
\* cannot take part (it waits in db.Begin(true)); committed says whether
\* flushUnitToDB and tx.Commit both succeeded (when flushUnitToDB fails the
\* transaction is rolled back)
Close2 ==
    /\ panic = "none"
    /\ ctlPc = "x_flush"
    /\ canBegin => ~writerBusy
    /\ IF ctlU = NULL
       THEN Panic("nil unit in serialize")
       ELSE /\ \E udb \in serialize(heap[ctlU]) :
                 IF ~canBegin
                 THEN /\ UNCHANGED <<store, shut>>
                      /\ ops' = [ops EXCEPT !.ctl = @ \o closeTxOps(FALSE)]
                 ELSE \E committed \in BOOLEAN :
                         /\ store' = IF committed
                                     THEN storePut(store, heap[ctlU].id, udb)
                                     ELSE store
                         /\ shut' = [shut EXCEPT !.flushed = committed]
                         /\ ops' = [ops EXCEPT !.ctl = @ \o closeTxOps(committed)]
            /\ ctlPc' = "x_close"
            /\ UNCHANGED <<now, limit, db, memV, panic, flV, ingV, q, ctlU,
                           qres, ingestDone, mark, boundV, lost, codec>>

\* "if s.db != nil { s.db.Close() }"
Close3 ==
    /\ panic = "none"
    /\ ctlPc = "x_close"
    /\ db = "open" => ~writerBusy
    /\ db' = IF db # "nil" THEN "closed" ELSE db
    /\ flDb' = IF db # "nil" /\ flDb = "open" THEN "closed" ELSE flDb
    /\ heap' = gc(heap, {unit, flU, ingU})
    /\ received' = gc(received, {unit, flU, ingU})
    /\ ingestDone' = ingestDone - received[ctlU]
    /\ ctlU' = NULL
    /\ ctlPc' = "closed"
    /\ ops' = [ops EXCEPT !.ctl = @ \o (IF db # "nil" THEN <<"close">> ELSE <<>>)]
    /\ UNCHANGED <<now, limit, store, unit, unitLock, panic, flPc, flId, flU,
                   flUdb, flTx, ingV, q, qres, shut, mark, boundV, lost, codec>>

\* ------------------------------------------------------------------------
\* The engine is constructed again on the same file, with a retention of one
\* day, after Close, once periodicFlush and Update have returned.

Reopen ==
    /\ panic = "none"
    /\ ctlPc = "closed" /\ flPc = "exited" /\ ingPc = "idle"
    /\ now' = now
    /\ limit' = HoursPerDay
    /\ db' = "open"
    /\ \E committed \in BOOLEAN :
          /\ store' = createStore(store, now, HoursPerDay, committed)
          /\ ops' = [NoOps EXCEPT !.ctl =
                        createOps(oldUnits(store, now, HoursPerDay) # {}, committed)]
    /\ heap' = [r \in {1} |-> createUnit(store, now, HoursPerDay)]
    /\ unit' = 1
    /\ unitLock' = "free"
    /\ flPc' = "loop" /\ flId' = 0 /\ flU' = NULL /\ flUdb' = ZeroUnitDB
    /\ flDb' = "none" /\ flTx' = NoTx
    /\ ingPc' = "idle" /\ ingE' = Entry(0, "", ipBad, 0) /\ ingU' = NULL
    /\ ctlPc' = "idle" /\ q' = QNone /\ ctlU' = NULL
    /\ qres' = NoResult
    /\ received' = [r \in {1} |-> createUnit(store, now, HoursPerDay).nTotal]
    /\ ingestDone' = createUnit(store, now, HoursPerDay).nTotal
    /\ mark' = "reopen"
    /\ UNCHANGED <<panic, shut, boundV, lost, codec>>

\* ------------------------------------------------------------------------

Next ==
    \/ Tick
    \/ \E e \in Entries : Update1(e)
    \/ Update2
    \/ FlushLoop
    \/ FlushPoll
    \/ FlushCompare
    \/ FlushSwap
    \/ FlushSerialize
    \/ FlushBegin
    \/ FlushTx
    \/ FlushWrite
    \/ FlushCommit
    \/ \E t \in TimeUnits : GetData1(t)
    \/ GetDataClock
    \/ GetDataLoad
    \/ GetData2
    \/ GetData3
    \/ GetDataReturn
    \/ \E d \in ConfigDays : Configurate(d)
    \/ Clear1
    \/ ClearDetach
    \/ ClearRollback
    \/ ClearClose
    \/ Clear2
    \/ Clear3
    \/ Clear4
    \/ Close1
    \/ Close2
    \/ Close3
    \/ Reopen

Spec == Init /\ [][Next]_vars

\* ------------------------------------------------------------------------
\* The engine constructed on a file that earlier runs have filled: each of
\* the 23 hours before the current one holds the record of a unit that
\* received one event. The current hour is any hour of a day.

oneEventRecord(id) ==
    CHOOSE r \in serialize(updateUnit(initUnit(id), Entry(RNotFiltered, "a", ip4, 1))) : TRUE

filledStore(id) ==
    [i \in (id - HoursPerDay + 1)..(id - 1) |-> oneEventRecord(i)]

InitLoaded ==
    /\ now \in (StartID + 1)..(StartID + HoursPerDay)
    /\ Created(1, filledStore(now))
    /\ shut = NoShut
    /\ mark = "none"
    /\ calls = 0
    /\ codec = NoCodec

\* Update and GetData calls while the hour does not change
NextLoaded ==
    \/ \E e \in Entries : Update1(e)
    \/ Update2
    \/ FlushLoop
    \/ FlushPoll
    \/ FlushCompare
    \/ \E t \in TimeUnits : GetData1(t)
    \/ GetDataClock
    \/ GetDataLoad
    \/ GetData2
    \/ GetData3
    \/ GetDataReturn

SpecLoaded == InitLoaded /\ [][NextLoaded]_vars

\* ------------------------------------------------------------------------
\* The engine constructed with a retention of one day or two, at any hour of
\* a day, on a file in which the hours of the window hold different counts:
\* hour i holds the record of a unit that received i % 3 events, and no
\* record when that is 0.

SeriesDays == {1, 2}

SeriesEntry == Entry(RFiltered, "b", ip6, 1)

gradedRecord(id) ==
    LET u1 == updateUnit(initUnit(id), SeriesEntry)
        u == IF id % 3 = 1 THEN u1 ELSE updateUnit(u1, SeriesEntry)
    IN CHOOSE r \in serialize(u) : TRUE

gradedStore(id, lim) ==
    [i \in {j \in (id - lim + 1)..(id - 1) : j % 3 # 0} |-> gradedRecord(i)]

InitSeries ==
    /\ now \in (StartID + 1)..(StartID + HoursPerDay)
    /\ \E days \in SeriesDays : Created(days, gradedStore(now, days * HoursPerDay))
    /\ shut = NoShut
    /\ mark = "none"
    /\ calls = 0
    /\ codec = NoCodec

\* Update and GetData calls while the hour does not change
NextSeries ==
    \/ Update1(SeriesEntry)
    \/ Update2
    \/ \E t \in TimeUnits : GetData1(t)
    \/ GetDataClock
    \/ GetDataLoad
    \/ GetData2
    \/ GetData3
    \/ GetDataReturn

SpecSeries == InitSeries /\ [][NextSeries]_vars

\* ------------------------------------------------------------------------
\* The engine constructed, with a retention of one day, on a file that an
\* earlier run left some time ago, and then rotating as the clock advances.

\* the files: one holds buckets just below the cutoff id - lim, the other a
\* bucket at the cutoff; both hold the bucket of the hour before
agedStores(id, lim) ==
    { [i \in {id - lim - 2, id - lim - 1, id - 1} |-> oneEventRecord(i)],
      [i \in {id - lim, id - 1} |-> oneEventRecord(i)] }

InitAged ==
    /\ now = StartID
    /\ \E s \in agedStores(now, HoursPerDay) : Created(1, s)
    /\ shut = NoShut
    /\ mark = "none"
    /\ calls = 0
    /\ codec = NoCodec

NextRotate ==
    \/ Tick
    \/ \E e \in Entries : Update1(e)
    \/ Update2
    \/ FlushLoop
    \/ FlushPoll
    \/ FlushCompare
    \/ FlushSwap
    \/ FlushSerialize
    \/ FlushBegin
    \/ FlushTx
    \/ FlushWrite
    \/ FlushCommit

\* The periodicFlush goroutine keeps running, and an Update that holds the
\* lock gets to its Unlock.
SpecRotate ==
    /\ InitAged
    /\ [][NextRotate]_vars
    /\ WF_vars(FlushLoop)
    /\ WF_vars(FlushPoll)
    /\ WF_vars(FlushCompare)
    /\ WF_vars(FlushSwap)
    /\ WF_vars(FlushSerialize)
    /\ WF_vars(FlushBegin)
    /\ WF_vars(FlushTx)
    /\ WF_vars(FlushWrite)
    /\ WF_vars(FlushCommit)
    /\ WF_vars(Update2)

\* ------------------------------------------------------------------------
\* A new engine that receives events of every shape while the clock advances
\* and periodicFlush rotates the unit.

NextIngest ==
    \/ Tick
    \/ \E e \in IngestEntries : Update1(e)
    \/ Update2
    \/ FlushLoop
    \/ FlushPoll
    \/ FlushCompare
    \/ FlushSwap
    \/ FlushSerialize
    \/ FlushBegin
    \/ FlushTx
    \/ FlushWrite
    \/ FlushCommit

SpecIngest == Init /\ [][NextIngest]_vars

\* ------------------------------------------------------------------------
\* A new engine on which Configurate is called by one goroutine while
\* another calls GetData, with Update calls, in one hour.

NextReconf ==
    \/ \E e \in Entries : Update1(e)
    \/ Update2
    \/ \E t \in TimeUnits : GetData1(t)
    \/ GetDataClock
    \/ GetDataLoad
    \/ GetData2
    \/ GetData3
    \/ GetDataReturn
    \/ \E d \in ConfigDays : ConfigurateConcurrent(d)

SpecReconf == Init /\ [][NextReconf]_vars

\* ------------------------------------------------------------------------
\* The codec alone: a unit is encoded by serialize and the record decoded
\* by deserialize into a unit initUnit made.

CodecNames == {"a", "b", "c"}

\* the names of the small tallies of filtered domains
BlockedNames == {"b", "c"}

\* the names of a tally of n names
manyNames(n) == {ToString(i) : i \in 1..n}

\* the number of names of the large tallies: around the cut of serialize
ManySizes == (maxDomains - 1)..(maxDomains + MaxExtra)

\* a tally with the sum of its counts
tallyOf(m, n) == [m |-> m, n |-> n]

smallSum(m) ==
    SumSeq([i \in 1..3 |->
               IF <<"a", "b", "c">>[i] \in DOMAIN m THEN m[<<"a", "b", "c">>[i]] ELSE 0])

\* the small tallies of the given names, of every shape
SmallTallies(names) ==
    {tallyOf(m, smallSum(m)) :
        m \in UNION {[S -> 1..MaxCount] : S \in SUBSET names}}

\* the counts of a large tally of n names: name i was counted i times, but
\* the names up to t once each (the names of the smallest count are those a
\* cut takes from), and the last name top times
largeCounts(n, t, top) ==
    [i \in 1..n |-> IF i = n THEN top ELSE IF i <= t THEN 1 ELSE i]

\* the sum of the counts lo..hi
RECURSIVE sumCounts(_, _, _)
sumCounts(cnt, lo, hi) ==
    IF lo > hi THEN 0
    ELSE IF lo = hi THEN cnt[lo]
    ELSE sumCounts(cnt, lo, (lo + hi) \div 2)
             + sumCounts(cnt, (lo + hi) \div 2 + 1, hi)

\* the number a name of a large tally stands for
numberOf(k, n) == CHOOSE i \in 1..n : ToString(i) = k

largeTally(n, t, top) ==
    LET cnt == largeCounts(n, t, top)
    IN tallyOf([k \in manyNames(n) |-> cnt[numberOf(k, n)]], sumCounts(cnt, 1, n))

\* the large tallies, without and with names of the same count
LargeTallies == {largeTally(n, t, n) : n \in ManySizes, t \in {1, MaxTies}}

\* the tallies of domains and of filtered domains of the units given to the
\* codec: both small, or one of them large
DomainTallies ==
    (SmallTallies(CodecNames) \X SmallTallies(BlockedNames))
    \cup (LargeTallies \X SmallTallies(BlockedNames))
    \cup (SmallTallies(BlockedNames) \X LargeTallies)

\* the tallies of clients of a unit that has counted total events: small
\* ones, and large ones in which the last client has made the events the
\* others have not
ClientTallies(total) ==
    {c \in SmallTallies(CodecNames) : c.n = total}
    \cup {largeTally(n, MaxTies,
                     total - sumCounts(largeCounts(n, MaxTies, 0), 1, n)) :
            n \in {i \in ManySizes :
                      total > sumCounts(largeCounts(i, MaxTies, 0), 1, i)}}

\* the unit that has counted, from the clients of c, the unfiltered events
\* of d and the filtered ones of b, all of no duration
unitOf(d, b, c) ==
    [initUnit(0) EXCEPT !.nTotal = c.n,
                        !.nResult = [i \in 1..rLast |->
                                        IF i = RNotFiltered + 1 THEN d.n
                                        ELSE IF i = RFiltered + 1 THEN b.n
                                        ELSE 0],
                        !.domains = d.m,
                        !.blockedDomains = b.m,
                        !.clients = c.m]

engineV == <<now, ctxV, memV, panic, flV, ingV, ctlV, histV, mark, boundV, logV>>

InitCodec ==
    /\ now = StartID
    /\ Created(1, EmptyStore)
    /\ shut = NoShut
    /\ mark = "none"
    /\ calls = 0
    /\ \E p \in DomainTallies :
          \E c \in ClientTallies(p[1].n + p[2].n) :
              codec = [NoCodec EXCEPT !.pc = "in", !.u = unitOf(p[1], p[2], c)]

\* "udb := serialize(u)"
CodecSerialize ==
    /\ codec.pc = "in"
    /\ \E r \in serialize(codec.u) :
          codec' = [codec EXCEPT !.pc = "encoded", !.udb = r]
    /\ UNCHANGED engineV

\* "deserialize(&u, udb)" on a unit initUnit made
CodecDecode ==
    /\ codec.pc = "encoded"
    /\ codec' = [codec EXCEPT !.pc = "decoded",
                              !.back = deserialize(initUnit(0), codec.udb)]
    /\ UNCHANGED engineV

NextCodec ==
    \/ CodecSerialize
    \/ CodecDecode

SpecCodec == InitCodec /\ [][NextCodec]_vars

\* ========================================================================
\* Properties

\* an event as the specification calls it invalid
InvalidEvent(e) ==
    e.Result = 0 \/ e.Domain = "" \/ (e.Client.len # 4 /\ e.Client.len # 16)

\* the step in which Update applies its event and returns
UpdateReturns == ingPc = "locked" /\ ingPc' = "idle"

\* C1: an Update of a valid event (one of the five result kinds, a domain
\* name, a client address of 4 or 16 bytes) adds exactly 1 to the total count
\* of the active unit and exactly 1 to the counter of the event's result
\* kind, and leaves every other result counter as it was; no such Update
\* ends the process at "u.nResult[e.Result]++".
C1_IngestCountsOnce ==
    [][/\ UpdateReturns =>
            /\ ~InvalidEvent(ingE)
            /\ ingU = unit
            /\ ingU \in DOMAIN heap'
            /\ heap'[ingU].nTotal = heap[ingU].nTotal + 1
            /\ Len(heap'[ingU].nResult) = Len(heap[ingU].nResult)
            /\ \A k \in 0..(Len(heap[ingU].nResult) - 1) :
                  At(heap'[ingU].nResult, k) =
                      At(heap[ingU].nResult, k) + (IF k = ingE.Result THEN 1 ELSE 0)
       /\ panic' # "index out of range"]_vars

\* events of the kinds safe-browsing and safe-search have been counted in
\* the unit of the hour after a rotation
C1_Witness ==
    /\ ingPc = "idle"
    /\ unit # NULL
    /\ heap[unit].id = StartID + 1
    /\ heap[unit].nTotal = 2
    /\ At(heap[unit].nResult, RSafeBrowsing) = 1
    /\ At(heap[unit].nResult, RSafeSearch) = 1

\* C2: an Update of an invalid event returns at once and changes nothing of
\* the engine: the units, the active pointer, the lock, the retention, the
\* store handle and the stored buckets.
C2_InvalidIngestIsNoop ==
    [][\A e \in Entries :
          (InvalidEvent(e) /\ Update1(e)) =>
              (ingPc' = "idle" /\ UNCHANGED <<heap, unit, unitLock, limit, db, store>>)]_vars

\* an invalid event was submitted after a valid one (the last Update call
\* returned without locking), and the unit holds the valid one only
C2_Witness ==
    /\ ingPc = "idle"
    /\ ops.ing = <<>>
    /\ unit # NULL
    /\ heap[unit].nTotal = 1
    /\ ingestDone = 1
    /\ calls = 2

\* the window GetData has assembled when it reaches the length test
queryWindow == assembleWindow(q.units, q.cu, q.cuID, q.lastID)

\* C3: the window GetData assembles has exactly s.limit records, so that the
\* length test never ends the process.
C3_WindowHasLimitRecords ==
    /\ panic # "len(units) != s.limit"
    /\ panic # "slice bounds out of range"
    /\ (ctlPc = "g_calc" /\ q.units # <<>>) => Len(queryWindow) = limit

\* the count of name k in a top list (0 when the list does not hold it)
listCount(a, k) ==
    SumSeq([j \in DOMAIN a |-> IF a[j].Name = k THEN a[j].Count ELSE 0])

\* the top lists the specification's mergeTopK gives for a window: the count
\* of a name is the sum of its counts over the buckets, in descending order
\* of count, cut to max
mergedTopK(units, field, max) ==
    LET names == UNION {{units[i][field][j].Name : j \in DOMAIN units[i][field]} :
                           i \in DOMAIN units}
        sums == [k \in names |->
                    SumSeq([i \in DOMAIN units |-> listCount(units[i][field], k)])]
    IN {convertTopArray(a) : a \in convertMapToArray(sums, max)}

\* GetData has returned a result for the window q.units
queryDone == ctlPc = "g_done" /\ qres.kind = "data"

\* C4: the top lists GetData returns are the merge of the window's lists in
\* which the count of a name is the sum of its counts over the buckets.
C4_TopKSumsCounts ==
    queryDone =>
        /\ qres.d.top_queried_domains \in mergedTopK(q.units, "Domains", maxDomains)
        /\ qres.d.top_blocked_domains \in mergedTopK(q.units, "BlockedDomains", maxDomains)
        /\ qres.d.top_clients \in mergedTopK(q.units, "Clients", maxClients)

\* every number GetData returned is 0 and every top list is empty
zeroResult(d) ==
    /\ d.num_dns_queries = 0
    /\ d.num_blocked_filtering = 0
    /\ d.num_replaced_safebrowsing = 0
    /\ d.num_replaced_safesearch = 0
    /\ d.num_replaced_parental = 0
    /\ \A i \in DOMAIN d.dns_queries : d.dns_queries[i] = 0
    /\ \A i \in DOMAIN d.blocked_filtering : d.blocked_filtering[i] = 0
    /\ \A i \in DOMAIN d.replaced_safebrowsing : d.replaced_safebrowsing[i] = 0
    /\ \A i \in DOMAIN d.replaced_parental : d.replaced_parental[i] = 0
    /\ d.top_queried_domains = <<>>
    /\ d.top_blocked_domains = <<>>
    /\ d.top_clients = <<>>

\* C5: a GetData that follows Clear at once (nothing else has changed the
\* engine since Clear returned) returns zero totals, zero series and empty
\* top lists.
C5_ClearThenQueryIsZero ==
    (mark = "clear" /\ queryDone) => zeroResult(qres.d)

\* the steps of periodicFlush that swap the unit and that end the transaction
SwapStep == flPc = "swap" /\ flPc' = "ser"
FlushStep == flPc \in {"begin", "tx", "commit"} /\ flPc' = "loop"

\* C6: rotation. The swap installs a new empty unit of the hour periodicFlush
\* observed and retires the unit that was active; when the hour observed is
\* the next one and the transaction has written the record and committed,
\* the file then holds the retired unit's record with as many events as the
\* unit received; an Update changes the active unit only: no other unit and
\* no stored record.
C6_Rotation ==
    [][/\ SwapStep =>
            /\ unit' # unit
            /\ heap'[unit'] = initUnit(flId)
            /\ flU' = unit
       /\ (FlushStep /\ flId = heap[flU].id + 1 /\ heap[flU].id \notin lost') =>
            /\ heap[flU].id \in DOMAIN store'
            /\ store'[heap[flU].id].NTotal = received[flU]
       /\ UpdateReturns =>
            /\ store' = store
            /\ ingU = unit
            /\ \A r \in (DOMAIN heap \cap DOMAIN heap') \ {ingU} : heap'[r] = heap[r]
      ]_vars

\* bucket StartID received one event and was rotated out, and an Update made
\* after the rotation is in the unit of the next hour only
C6_Witness ==
    /\ flPc = "loop"
    /\ StartID \in DOMAIN store
    /\ store[StartID].NTotal = 1
    /\ unit # NULL
    /\ heap[unit].id = StartID + 1
    /\ heap[unit].nTotal = 1
    /\ ingPc = "idle"

\* C7: after Close, whose flush committed, and createObject in the same hour,
\* the active unit has the identifier, the total count and, at each result
\* kind's position, the count the unit had when Close retired it.
C7_ReopenRestoresBucket ==
    (mark = "reopen" /\ shut.set /\ shut.flushed /\ shut.u.id = now /\ unit # NULL) =>
        /\ heap[unit].id = shut.u.id
        /\ heap[unit].nTotal = shut.u.nTotal
        /\ \A k \in 1..(rLast - 1) :
              At(heap[unit].nResult, k) = At(shut.u.nResult, k)

\* the total of the unit a thread has retired and not yet written
retiredTotal ==
    (IF flPc \in {"begin", "tx", "put", "commit"} THEN flUdb.NTotal
     ELSE IF flPc = "ser" /\ flU # NULL THEN heap[flU].nTotal ELSE 0)
    + (IF ctlPc \in {"x_flush", "x_close"} /\ ctlU # NULL
       THEN heap[ctlU].nTotal ELSE 0)

activeTotal == IF unit # NULL THEN heap[unit].nTotal ELSE 0

\* C9: every valid Update that has returned is counted exactly once, in the
\* retired unit (and so in the record encoded from it) or in the active unit;
\* and the unit an Update is changing is the active one, never a retired one.
C9_NoLostIngest ==
    /\ retiredTotal + activeTotal = ingestDone
    /\ ingPc = "locked" => ingU = unit

\* a rotation in flight: one event is in the encoded retired record, one
\* landed in the new unit after the swap
C9_Witness ==
    /\ flPc = "tx"
    /\ flUdb.NTotal = 1
    /\ unit # NULL
    /\ heap[unit].nTotal = 1
    /\ ingestDone = 2

\* Close has set s.unit to nil and the engine has not been constructed again
closing == ctlPc \in {"x_flush", "x_close", "closed"}

\* C10: once Close has set s.unit to nil it stays nil, and periodicFlush
\* makes no further swap and no further flush.
C10_NullStaysNull ==
    [][(closing /\ unit = NULL /\ closing') =>
           (unit' = NULL /\ ~SwapStep /\ (FlushStep => flU # NULL))]_vars

\* C8: by days, the points of dns_queries add up to num_dns_queries; with a
\* retention of one day and a window of 24 buckets of one event each there
\* is one point, and it is 24.
C8_DailyPoint ==
    (queryDone /\ q.timeUnit = Days) =>
        /\ SumSeq(qres.d.dns_queries) = qres.d.num_dns_queries
        /\ (limit = HoursPerDay /\ \A i \in DOMAIN q.units : q.units[i].NTotal = 1) =>
               qres.d.dns_queries = <<HoursPerDay>>

\* C11: with an unchanged retention, the file holds no bucket older than
\* now - limit when createObject returns, and none older than id - limit
\* after periodicFlush's transaction for the hour id has changed the file.
C11_NoBucketOlderThanRetention ==
    /\ \A i \in DOMAIN store : i >= now - limit
    /\ [][(FlushStep /\ store' # store) =>
             \A i \in DOMAIN store' : i >= flId - limit]_vars

\* C12: a retired unit whose transaction did not commit is written by a
\* later iteration of periodicFlush: its bucket is eventually in the file.
C12_FailedRotationIsRetried ==
    (lost # {}) ~> (\A i \in lost : loadUnitFromDB(store, i) # {})

\* the file is not available: Clear closed it and could not open it again
storeUnavailable == db = "nil"

\* the ingest half of C13: without the file, an Update still counts its
\* event in the active unit
ingestServesWithoutStore ==
    [][(storeUnavailable /\ UpdateReturns) =>
           /\ ingU = unit
           /\ heap'[ingU].nTotal = heap[ingU].nTotal + 1]_vars

\* C13: without the file the engine keeps serving the unit in memory: an
\* Update still counts its event in the active unit, and GetData returns a
\* result made of all-zero records for the stored hours and of the live
\* unit's record, whose counts appear in it.
C13_ServesWithoutStore ==
    /\ ingestServesWithoutStore
    /\ [](  (storeUnavailable /\ ctlPc = "g_done") =>
               /\ qres.kind = "data"
               /\ \A i \in 1..(Len(q.units) - 1) : q.units[i] = ZeroUnitDB
               /\ q.units[Len(q.units)] = q.cu
               /\ qres.d.num_dns_queries = q.cu.NTotal)

\* C14: Configurate with a negative argument changes nothing of the engine;
\* with another argument it sets s.limit to 24 times the argument and changes
\* nothing else: the units, the active pointer, the lock, the store handle
\* and the stored buckets are as they were. So whenever the retention of a
\* constructed engine changes, it becomes 24 times a non-negative argument
\* and nothing else changes.
C14_ConfigurateFrame ==
    [][/\ \A d \in ConfigDays :
             Configurate(d) =>
                 /\ limit' = (IF d < 0 THEN limit ELSE d * HoursPerDay)
                 /\ UNCHANGED <<db, store, heap, unit, unitLock, received>>
       /\ (limit' # limit /\ ctlPc # "closed") =>
             /\ \E d \in ConfigDays : d >= 0 /\ limit' = d * HoursPerDay
             /\ UNCHANGED <<db, store, heap, unit, unitLock, received>>]_vars

\* Configurate(2) was called on an engine with a stored bucket and an event
\* in the active unit: the retention is two days, both are still there
C14_Witness ==
    /\ limit = 2 * HoursPerDay
    /\ ops.ctl = <<>>
    /\ StartID \in DOMAIN store
    /\ unit # NULL
    /\ heap[unit].nTotal = 1

\* array a holds the top max entries of tally m: min(size, max) of its
\* entries, each name once with its count in m, in descending order of
\* count, and no name left out has a greater count than one kept
keepsTop(m, a, max) ==
    LET kept == {a[i].Name : i \in DOMAIN a}
    IN /\ Len(a) = Min(Cardinality(DOMAIN m), max)
       /\ Cardinality(kept) = Len(a)
       /\ \A i \in DOMAIN a :
             /\ a[i].Name \in DOMAIN m
             /\ a[i].Count = m[a[i].Name]
             /\ i > 1 => a[i - 1].Count >= a[i].Count
       /\ \A k \in DOMAIN m \ kept : \A i \in DOMAIN a : m[k] <= a[i].Count

\* tally back, decoded from array a, holds the entries of tally m that a
\* kept, and all of m when m has at most max entries
givesBack(m, a, back, max) ==
    /\ back = [k \in {a[i].Name : i \in DOMAIN a} |-> m[k]]
    /\ Cardinality(DOMAIN m) <= max => back = m

\* C15: for each of the three tallies of a unit, the array serialize makes
\* holds min(size, 100) of its entries, each name once with its exact count,
\* in descending order of count, and no entry left out has a greater count
\* than one kept; deserialize gives the kept entries back, so a tally of at
\* most 100 entries is recovered exactly.
C15_EncodeKeepsTop ==
    /\ (codec.pc \in {"encoded", "decoded"}) =>
          /\ keepsTop(codec.u.domains, codec.udb.Domains, maxDomains)
          /\ keepsTop(codec.u.blockedDomains, codec.udb.BlockedDomains, maxDomains)
          /\ keepsTop(codec.u.clients, codec.udb.Clients, maxClients)
    /\ (codec.pc = "decoded") =>
          /\ givesBack(codec.u.domains, codec.udb.Domains,
                       codec.back.domains, maxDomains)
          /\ givesBack(codec.u.blockedDomains, codec.udb.BlockedDomains,
                       codec.back.blockedDomains, maxDomains)
          /\ givesBack(codec.u.clients, codec.udb.Clients,
                       codec.back.clients, maxClients)

\* a unit with 101 domains, of which "1" and "2" have the smallest count,
\* one filtered domain and 102 clients was encoded and decoded: "101" is
\* first of the 100 domains kept, "2" is the one cut, the filtered domain is
\* kept, 100 clients are kept, and two clients and one domain are missing
\* from the decoded unit
C15_Witness ==
    /\ codec.pc = "decoded"
    /\ codec.u.domains = largeTally(maxDomains + 1, MaxTies, maxDomains + 1).m
    /\ DOMAIN codec.u.blockedDomains = {"b"}
    /\ Cardinality(DOMAIN codec.u.clients) = maxClients + 2
    /\ Len(codec.udb.Domains) = maxDomains
    /\ codec.udb.Domains[1] = countPair(ToString(maxDomains + 1), maxDomains + 1)
    /\ DOMAIN codec.back.domains = manyNames(maxDomains + 1) \ {"2"}
    /\ codec.udb.BlockedDomains = <<countPair("b", 1)>>
    /\ Len(codec.udb.Clients) = maxClients
    /\ codec.back.blockedDomains = codec.u.blockedDomains
    /\ Cardinality(DOMAIN codec.back.clients) = maxClients

Threads == {"fl", "ing", "ctl"}

\* the calls that reach the file
StorageOps ==
    {"begin", "begin_failed", "get", "put", "delete", "commit", "rollback",
     "close", "open"}

\* before call i of log, the thread has locked and not yet unlocked
heldAt(log, i) ==
    \E j \in 1..(i - 1) :
        log[j] = "lock" /\ \A k \in (j + 1)..(i - 1) : log[k] # "unlock"

\* before call i of log, the thread has begun a transaction and not ended it
txOpenAt(log, i) ==
    \E j \in 1..(i - 1) :
        log[j] = "begin" /\ \A k \in (j + 1)..(i - 1) : log[k] \notin {"commit", "rollback"}

\* C16: no thread makes a storage call while it holds unitLock, and none
\* takes unitLock while a transaction of its own is open; the lock is held
\* exactly by the thread whose last "lock" has no "unlock" yet, and Update
\* makes no storage call at all.
C16_NoStorageUnderLock ==
    /\ \A t \in Threads : \A i \in DOMAIN ops[t] :
          /\ ops[t][i] \in StorageOps => ~heldAt(ops[t], i)
          /\ ops[t][i] = "lock" => ~txOpenAt(ops[t], i)
    /\ \A t \in Threads : (unitLock = t) <=> heldAt(ops[t], Len(ops[t]) + 1)
    /\ \A i \in DOMAIN ops.ing : ops.ing[i] \notin StorageOps

\* Clear has ended its transaction, closed the file and opened it again and
\* waits for the lock, which an Update holds, while periodicFlush, which
\* has swapped, is in a write transaction on the new handle
C16_Witness ==
    /\ ops.fl = <<"lock", "unlock", "begin", "put", "delete">>
    /\ ops.ctl = <<"begin", "rollback", "close", "open">>
    /\ ctlPc = "c_lock"
    /\ ops.ing = <<"lock">>
    /\ unitLock = "ing"

\* the thread is between two operations (or iterations)
atRest(t) ==
    IF t = "ing" THEN ingPc = "idle"
    ELSE IF t = "fl" THEN flPc \in {"loop", "exited"}
    ELSE ctlPc \in {"idle", "g_done", "closed"}

\* C17: a transaction is begun only when the thread has none open, it is
\* ended (by Commit or by Rollback) only when open, hence once, reads and
\* writes go through an open transaction, and no thread has a transaction
\* open when its operation has returned or its iteration has ended.
C17_TransactionsEndOnce ==
    \A t \in Threads :
        /\ \A i \in DOMAIN ops[t] :
              /\ ops[t][i] = "begin" => ~txOpenAt(ops[t], i)
              /\ ops[t][i] \in {"commit", "rollback", "get", "put", "delete"} =>
                    txOpenAt(ops[t], i)
        /\ atRest(t) => ~txOpenAt(ops[t], Len(ops[t]) + 1)

\* Clear has rolled its transaction back and waits in db.Close() with s.db
\* nil, while periodicFlush, on the handle it read before, has begun a
\* transaction after that Rollback and written in it
C17_Witness ==
    /\ ctlPc = "c_close"
    /\ db = "nil"
    /\ ops.ctl = <<"begin", "rollback">>
    /\ flPc = "commit"
    /\ ops.fl = <<"lock", "unlock", "begin", "put", "delete">>

\* the four series of a result
seriesOf(d) ==
    <<d.dns_queries, d.blocked_filtering, d.replaced_safebrowsing, d.replaced_parental>>

\* C18: with a retention of d days (d >= 1), each of the four series GetData
\* returns has d points by days and 24 * d points by hours, whatever the
\* current hour is modulo 24; by hours, point i is the count of hour
\* firstID + i - 1: of its stored record (0 when none is stored), the last
\* one of the live unit.
C18_SeriesLength ==
    (queryDone /\ limit >= HoursPerDay) =>
        /\ \A k \in 1..4 :
              Len(seriesOf(qres.d)[k]) =
                  (IF q.timeUnit = Hours THEN limit ELSE limit \div HoursPerDay)
        /\ (q.timeUnit = Hours) =>
              /\ \A i \in 1..(limit - 1) :
                    qres.d.dns_queries[i] =
                        (IF q.firstID + i - 1 \in DOMAIN store
                         THEN store[q.firstID + i - 1].NTotal ELSE 0)
              /\ qres.d.dns_queries[limit] = q.cu.NTotal
              /\ q.firstID + limit - 1 = now

\* by days with a retention of two days, at an hour that is 5 modulo 24,
\* GetData has returned two points
C18_Witness ==
    /\ queryDone
    /\ q.timeUnit = Days
    /\ limit = 2 * HoursPerDay
    /\ now % HoursPerDay = 5
    /\ Len(qres.d.dns_queries) = 2
    /\ Len(qres.d.replaced_parental) = 2

\* C19: GetData completes with an average processing time in every state:
\* the divisor timeN of the overall average is never 0 when GetData divides.
C19_AverageDefined ==
    /\ panic # "integer divide by zero"
    /\ (ctlPc = "g_calc" /\ q.units # <<>> /\ Len(queryWindow) = limit) =>
           timeN(queryWindow) # 0

\* the ways the process dies on a nil *unit
NilUnitPanics ==
    {"nil unit in Update", "nil unit in GetData", "nil unit in periodicFlush",
     "nil unit in serialize"}

\* C20: no operation dereferences a nil s.unit: Update and GetData never
\* find s.unit nil under the lock, and periodicFlush never reads s.unit.id
\* nor serializes a unit through a nil pointer.
C20_NoNilDereference ==
    /\ panic \notin NilUnitPanics
    /\ ingPc = "locked" => ingU # NULL
    /\ flPc = "ser" => flU # NULL

\* C21: a GetData that runs while Configurate is called uses one value of
\* s.limit: the retention it loaded the window with is the one it compares
\* the length of the window with, so that the length test does not end the
\* process.
C21_OneRetentionPerQuery == panic # "len(units) != s.limit"

\* C22: with every retention the engine accepts, 0 days included, the
\* loading loop of GetData ends: it starts at firstID <= lastID and has made
\* lastID - firstID = s.limit - 1 iterations when GetData goes on.
C22_QueryLoopTerminates ==
    /\ ctlPc # "g_spin"
    /\ (ctlPc = "g_snap") =>
          /\ q.firstID <= q.lastID
          /\ Len(q.units) = limit - 1

====
